---- MODULE Spec2Model ----
(***************************************************************************)
(* Model of zero-shot-prompting.ipynb: the setup cell (credential, llm,    *)
(* create_chain), the direct-task loop, the single-invocation cells        *)
(* (format specification, multi-step reasoning) and compare_prompts.       *)
(*                                                                         *)
(* Text is a sequence of one-character strings.  "{" and "}" are the       *)
(* braces of the f-string template syntax that PromptTemplate uses; "t"    *)
(* and "x" stand for ordinary characters.  The placeholder name `task`     *)
(* (and `topic`) is written <<"t">>, the name `text` is written <<"x">>.   *)
(***************************************************************************)
EXTENDS Integers, Sequences, FiniteSets, TLC

VARIABLES
    credential,  \* OPENAI_API_KEY is set in the environment
    llm,         \* the client of the setup cell, Undefined before it ran
    kind,        \* the cell being run: "none", "setup", "direct", "single", "compare"
    items,       \* the cell's work: <<[name, template, input]>>, in order
    task,        \* compare_prompts' task argument
    idx,         \* the item the cell is at (1-based)
    pc,          \* the statement the cell is at
    chain,       \* the chain create_chain returned last
    prompt,      \* the bound prompt text of the invocation in progress
    attempts,    \* requests sent for the invocation in progress
    inflight,    \* requests sent and not yet answered
    sent,        \* every request sent by this cell, in order
    served,      \* every reply the service gave to this cell, in order
    result,      \* the cell's `result` variable
    out,         \* what the cell has printed
    fault,       \* the exception that ended the cell, "none" otherwise
    invokes,     \* chain.invoke calls started by this cell
    failures     \* requests of this cell that the service or network failed

vars == <<credential, llm, kind, items, task, idx, pc, chain, prompt, attempts,
          inflight, sent, served, result, out, fault, invokes, failures>>

\* ---------------------------------------------------------------- bounds

\* Longest template enumerated exhaustively for the single-invocation cells.
MaxLen == 3

\* Most items of a loop (texts of the direct-task cell, entries of
\* prompt_templates).
MaxItems == 3

\* ChatOpenAI(model="gpt-4o-mini") passes no max_retries: the client keeps
\* its default, which re-sends a request that failed transiently this many
\* times before the error is raised to the caller.
MaxRetries == 2

\* ------------------------------------------------------------------ text

Letters == {"t", "x"}

Alphabet == {"{", "}"} \cup Letters

RECURSIVE StringsUpTo(_)
StringsUpTo(n) ==
    IF n = 0 THEN {<<>>}
    ELSE LET shorter == StringsUpTo(n - 1)
         IN  shorter \cup {Append(s, c) : s \in shorter, c \in Alphabet}

\* The placeholder names of the notebook.
TaskKey == <<"t">>
TextKey == <<"x">>
Names == {TaskKey, TextKey}

\* Values a caller passes: plain text, the empty string, lone braces and
\* text that itself has the form {name}.
Values == {<<>>, <<"t">>, <<"{">>, <<"}">>, <<"{", "t", "}">>}

\* Texts and tasks the loops are run with.
Texts == {<<>>, <<"t">>, <<"{", "t", "}">>}

\* A mapping is a function from some of the names to values (a dict).
Mappings == UNION {[keys -> Values] : keys \in SUBSET Names}

\* The notebook's templates, literal text shortened to single characters.
\* "...Text: {text}\n\nSentiment:"
direct_task_prompt == <<"x", "{", "x", "}", "x">>
\* "Generate a short news article about {topic}. ..."
format_spec_prompt == <<"x", "{", "t", "}", "x">>
\* "Analyze the following text ... Text: {text}\n\nAnalysis:"
multi_step_prompt == <<"x", "x", "{", "x", "}", "x">>
\* "Explain {task}."
BasicTemplate == <<"x", "{", "t", "}", "x">>
\* "Explain {task} by addressing the following points: ..."
StructuredTemplate == <<"x", "{", "t", "}", "x", "x">>

\* Templates a single-invocation cell is run with: the notebook's own, every
\* string up to MaxLen, and longer ones with two placeholders and with
\* escaped braces.
TemplatePool ==
    StringsUpTo(MaxLen)
        \cup {format_spec_prompt, multi_step_prompt,
              <<"{", "t", "}", "t", "{", "x", "}">>,
              <<"{", "{", "t", "}", "}">>,
              <<"{", "{", "{", "t", "}", "}", "}">>}

\* Entries compare_prompts is called with: the notebook's two, and entries
\* whose template is malformed or names a placeholder other than {task}.
EntryPool ==
    {[name |-> "Basic", template |-> BasicTemplate],
     [name |-> "Structured", template |-> StructuredTemplate],
     [name |-> "Open", template |-> <<"x", "{", "t">>],
     [name |-> "Other", template |-> <<"{", "x", "}">>]}

RECURSIVE DictsUpTo(_)
\* The dicts of at most n entries, as sequences in insertion order with
\* distinct keys.
DictsUpTo(n) ==
    IF n = 0 THEN {<<>>}
    ELSE LET shorter == DictsUpTo(n - 1)
         IN  shorter \cup
             UNION {{Append(d, e) :
                        e \in {f \in EntryPool :
                                 \A i \in 1..Len(d) : d[i].name # f.name}} :
                    d \in shorter}

RECURSIVE ListsUpTo(_)
\* The lists of at most n texts.
ListsUpTo(n) ==
    IF n = 0 THEN {<<>>}
    ELSE LET shorter == ListsUpTo(n - 1)
         IN  shorter \cup {Append(l, v) : l \in shorter, v \in Texts}

\* Replies of the remote model: opaque text, chosen by the service.
Replies == {<<"t">>, <<"x", "t">>}

\* ------------------------------------------------- PromptTemplate (f-string)

IsBrace(c) == c \in {"{", "}"}

\* Index of the first brace of s at or after i, 0 when there is none.
RECURSIVE NextBrace(_, _)
NextBrace(s, i) ==
    IF i > Len(s) THEN 0
    ELSE IF IsBrace(s[i]) THEN i
    ELSE NextBrace(s, i + 1)

Lit(c) == [lit |-> TRUE, text |-> <<c>>]
Field(n) == [lit |-> FALSE, text |-> n]

\* string.Formatter.parse, as PromptTemplate.from_template runs it: literal
\* characters, "{{" and "}}" as escaped braces, "{name}" as a field; a lone
\* "}", an unclosed "{" and a "{" inside a field name are a ValueError.
RECURSIVE ParseFrom(_, _, _)
ParseFrom(s, i, acc) ==
    IF i > Len(s) THEN [ok |-> TRUE, segs |-> acc]
    ELSE IF ~IsBrace(s[i]) THEN ParseFrom(s, i + 1, Append(acc, Lit(s[i])))
    ELSE IF s[i] = "}" THEN
        IF i < Len(s) /\ s[i + 1] = "}"
        THEN ParseFrom(s, i + 2, Append(acc, Lit("}")))
        ELSE [ok |-> FALSE, segs |-> <<>>]
    ELSE IF i = Len(s) THEN [ok |-> FALSE, segs |-> <<>>]
    ELSE IF s[i + 1] = "{" THEN ParseFrom(s, i + 2, Append(acc, Lit("{")))
    ELSE LET j == NextBrace(s, i + 1)
         IN  IF j = 0 \/ s[j] = "{" THEN [ok |-> FALSE, segs |-> <<>>]
             ELSE ParseFrom(s, j + 1,
                            Append(acc, Field(SubSeq(s, i + 1, j - 1))))

Parse(s) == ParseFrom(s, 1, <<>>)

\* input_variables of the parsed template.
InputVariables(segs) == {segs[i].text : i \in {k \in 1..Len(segs) : ~segs[k].lit}}

\* Every placeholder has a key in the mapping.
Covers(segs, m) == InputVariables(segs) \subseteq DOMAIN m

RECURSIVE FormatFalsy(_, _)
\* Format with a value looked up as `m.get(name) or "{name}"`: an empty
\* value counts as absent and its placeholder is left in the text.
FormatFalsy(segs, m) ==
    IF segs = <<>> THEN <<>>
    ELSE (IF Head(segs).lit THEN Head(segs).text
          ELSE IF m[Head(segs).text] = <<>>
               THEN <<"{">> \o Head(segs).text \o <<"}">>
               ELSE m[Head(segs).text])
             \o FormatFalsy(Tail(segs), m)

RECURSIVE Format(_, _)
\* One left-to-right pass: literal text is copied, each field is replaced
\* by its value, and the value is not scanned again.
Format(segs, m) ==
    IF segs = <<>> THEN <<>>
    ELSE (IF Head(segs).lit THEN Head(segs).text ELSE m[Head(segs).text])
             \o Format(Tail(segs), m)

RECURSIVE FormatLenient(_, _)
\* Format that leaves the placeholder of a missing key as it is.
FormatLenient(segs, m) ==
    IF segs = <<>> THEN <<>>
    ELSE (IF Head(segs).lit THEN Head(segs).text
          ELSE IF Head(segs).text \in DOMAIN m
               THEN m[Head(segs).text]
               ELSE <<"{">> \o Head(segs).text \o <<"}">>)
             \o FormatLenient(Tail(segs), m)

\* Bind without the check for missing keys.
BindLenient(segs, m) == [ok |-> TRUE, text |-> FormatLenient(segs, m)]

\* Bind of a chain with conversation memory: the last reply is put before
\* the formatted text.
BindWithMemory(segs, m) ==
    IF Covers(segs, m)
    THEN [ok |-> TRUE, text |-> result \o Format(segs, m)]
    ELSE [ok |-> FALSE, text |-> <<>>]

\* prompt.invoke(m): a missing input variable is a KeyError, otherwise the
\* formatted text.  An unnamed field "{}" is an input variable no mapping
\* of named values has, so it fails here too.
Bind(segs, m) ==
    IF Covers(segs, m)
    THEN [ok |-> TRUE, text |-> Format(segs, m)]
    ELSE [ok |-> FALSE, text |-> <<>>]

\* s holds a placeholder token: "{", one or more letters, "}".
HasPlaceholder(s) ==
    \E i \in 1..Len(s) : \E j \in (i + 2)..Len(s) :
        /\ s[i] = "{"
        /\ s[j] = "}"
        /\ \A k \in (i + 1)..(j - 1) : s[k] \in Letters

\* ------------------------------------------------------------- the notebook

Undefined == [defined |-> FALSE, model |-> "", max_retries |-> 0]

\* llm = ChatOpenAI(model="gpt-4o-mini")
ChatOpenAI == [defined |-> TRUE, model |-> "gpt-4o-mini", max_retries |-> MaxRetries]

NoChain == [made |-> FALSE, template |-> <<>>, segs |-> <<>>, llm |-> Undefined]

Init ==
    /\ credential \in BOOLEAN
    /\ llm = Undefined
    /\ kind = "none"
    /\ items = <<>>
    /\ task = <<>>
    /\ idx = 0
    /\ pc = "idle"
    /\ chain = NoChain
    /\ prompt = <<>>
    /\ attempts = 0
    /\ inflight = {}
    /\ sent = <<>>
    /\ served = <<>>
    /\ result = <<>>
    /\ out = <<>>
    /\ fault = "none"
    /\ invokes = 0
    /\ failures = 0

\* The kernel is idle: no cell is running.
AtRest == pc = "idle"

\* The cell ran to its end, or an exception ended it.
Ended == pc \in {"done", "halt"}

\* An exception that is caught and passed over: the cell goes on with its
\* prints.
RaiseAndContinue(err) ==
    /\ fault' = err
    /\ pc' = "print"

\* An unhandled exception: the cell stops at the statement that raised it.
Raise(err) ==
    /\ fault' = err
    /\ pc' = "halt"

\* A cell begins: its own variables are fresh, the kernel keeps llm.
Begin(k, its, tsk, printed, at) ==
    /\ kind' = k
    /\ items' = its
    /\ task' = tsk
    /\ idx' = 1
    /\ pc' = at
    /\ chain' = NoChain
    /\ prompt' = <<>>
    /\ attempts' = 0
    /\ inflight' = {}
    /\ sent' = <<>>
    /\ served' = <<>>
    /\ result' = <<>>
    /\ out' = printed
    /\ fault' = "none"
    /\ invokes' = 0
    /\ failures' = 0

\* The setup cell: os.environ["OPENAI_API_KEY"] = os.getenv(...) raises a
\* TypeError when the variable is unset, before llm and create_chain exist.
RunSetup ==
    /\ AtRest
    /\ kind' = "setup"
    /\ idx' = 1
    /\ IF credential
       THEN /\ llm' = ChatOpenAI
            /\ pc' = "done"
            /\ fault' = "none"
       ELSE /\ llm' = llm
            /\ pc' = "halt"
            /\ fault' = "TypeError"
    /\ items' = <<>>
    /\ task' = <<>>
    /\ chain' = NoChain
    /\ prompt' = <<>>
    /\ attempts' = 0
    /\ inflight' = {}
    /\ sent' = <<>>
    /\ served' = <<>>
    /\ result' = <<>>
    /\ out' = <<>>
    /\ invokes' = 0
    /\ failures' = 0
    /\ UNCHANGED credential

Item(n, tpl, m) == [name |-> n, template |-> tpl, input |-> m]

\* The direct-task cell up to its create_chain call: one item per text.
StartDirect ==
    /\ AtRest
    /\ \E texts \in ListsUpTo(MaxItems) :
        /\ Begin("direct",
                 [i \in 1..Len(texts) |->
                     Item("", direct_task_prompt, [n \in {TextKey} |-> texts[i]])],
                 <<>>, <<>>, "create")
        /\ UNCHANGED <<credential, llm>>

\* A cell that builds one chain and invokes it once (format specification,
\* multi-step reasoning), with any template and any mapping.
StartSingle ==
    /\ AtRest
    /\ \E tpl \in TemplatePool, m \in Mappings :
        /\ Begin("single", <<Item("", tpl, m)>>, <<>>, <<>>, "create")
        /\ UNCHANGED <<credential, llm>>

TaskLine(tsk) == [k |-> "Task", v |-> tsk]

\* compare_prompts(task, prompt_templates) up to the loop: prints the task.
StartCompare ==
    /\ AtRest
    /\ \E tsk \in Texts, d \in DictsUpTo(MaxItems) :
        /\ Begin("compare",
                 [i \in 1..Len(d) |->
                     Item(d[i].name, d[i].template, [n \in {TaskKey} |-> tsk])],
                 tsk, <<TaskLine(tsk)>>,
                 IF d = <<>> THEN "done" ELSE "create")
        /\ UNCHANGED <<credential, llm>>

\* The template the next create_chain call is given.
CurrentTemplate ==
    IF kind = "direct" THEN direct_task_prompt ELSE items[idx].template

\* create_chain(prompt_template): parses the template and pipes it into llm.
\* Neither name exists when the setup cell did not run to its end.
CreateChain ==
    /\ pc = "create"
    /\ IF ~llm.defined
       THEN /\ Raise("NameError")
            /\ chain' = chain
       ELSE LET p == Parse(CurrentTemplate)
            IN  IF p.ok
                THEN /\ chain' = [made |-> TRUE, template |-> CurrentTemplate,
                                  segs |-> p.segs, llm |-> llm]
                     /\ pc' = IF idx <= Len(items) THEN "invoke" ELSE "done"
                     /\ fault' = fault
                ELSE /\ Raise("ValueError")
                     /\ chain' = chain
    /\ UNCHANGED <<credential, llm, kind, items, task, idx, prompt, attempts,
                   inflight, sent, served, result, out, invokes, failures>>

\* Invoke that binds in place: the bound text overwrites the item's template.
InvokeBindsInPlace ==
    /\ pc = "invoke"
    /\ invokes' = invokes + 1
    /\ attempts' = 0
    /\ LET b == Bind(chain.segs, items[idx].input)
       IN  IF b.ok
           THEN /\ prompt' = b.text
                /\ items' = [items EXCEPT ![idx].template = b.text]
                /\ pc' = "send"
                /\ fault' = fault
           ELSE /\ Raise("KeyError")
                /\ items' = items
                /\ prompt' = prompt
    /\ UNCHANGED <<credential, llm, kind, task, idx, chain, inflight,
                   sent, served, result, out, failures>>

\* chain.invoke(mapping), the prompt half: bind the mapping.
Invoke ==
    /\ pc = "invoke"
    /\ invokes' = invokes + 1
    /\ attempts' = 0
    /\ LET b == Bind(chain.segs, items[idx].input)
       IN  IF b.ok
           THEN /\ prompt' = b.text
                /\ pc' = "send"
                /\ fault' = fault
           ELSE /\ Raise("KeyError")
                /\ prompt' = prompt
    /\ UNCHANGED <<credential, llm, kind, items, task, idx, chain, inflight,
                   sent, served, result, out, failures>>

Request(i, a, txt) == [item |-> i, attempt |-> a, text |-> txt]

\* SendRequest that does not block: the request is left outstanding and the
\* cell goes on to its next item.
SendRequestAsync ==
    /\ pc = "send"
    /\ attempts' = attempts + 1
    /\ inflight' = inflight \cup {Request(idx, attempts + 1, prompt)}
    /\ sent' = Append(sent, Request(idx, attempts + 1, prompt))
    /\ idx' = idx + 1
    /\ pc' = IF idx < Len(items) THEN "invoke" ELSE "done"
    /\ UNCHANGED <<credential, llm, kind, items, task, chain, prompt,
                   served, result, out, fault, invokes, failures>>

\* SendRequest that sends the template as written, not the bound prompt.
SendRequestRaw ==
    /\ pc = "send"
    /\ attempts' = attempts + 1
    /\ inflight' = inflight \cup {Request(idx, attempts + 1, chain.template)}
    /\ sent' = Append(sent, Request(idx, attempts + 1, chain.template))
    /\ pc' = "wait"
    /\ UNCHANGED <<credential, llm, kind, items, task, idx, chain, prompt,
                   served, result, out, fault, invokes, failures>>

\* chain.invoke, the model half: the client sends the bound prompt and blocks.
SendRequest ==
    /\ pc = "send"
    /\ attempts' = attempts + 1
    /\ inflight' = inflight \cup {Request(idx, attempts + 1, prompt)}
    /\ sent' = Append(sent, Request(idx, attempts + 1, prompt))
    /\ pc' = "wait"
    /\ UNCHANGED <<credential, llm, kind, items, task, idx, chain, prompt,
                   served, result, out, fault, invokes, failures>>

\* The message the client builds from the service's reply.
Message(r) == [content |-> r, type |-> "ai"]

\* Content that keeps only the first character of the reply.
ContentTruncated(msg) == SubSeq(msg.content, 1, 1)

\* .content of the returned message.
Content(msg) == msg.content

\* The service answers the outstanding request; invoke returns and the cell
\* assigns result.
ReceiveReply ==
    /\ pc = "wait"
    /\ \E req \in inflight, r \in Replies :
        /\ inflight' = inflight \ {req}
        /\ served' = Append(served, [item |-> req.item, text |-> req.text,
                                     reply |-> r])
        /\ result' = Content(Message(r))
    /\ pc' = "print"
    /\ UNCHANGED <<credential, llm, kind, items, task, idx, chain, prompt,
                   attempts, sent, out, fault, invokes, failures>>

\* AfterFailure with the retry count off by one.
AfterFailureOffByOne(transient) ==
    IF transient /\ attempts <= chain.llm.max_retries + 1
    THEN /\ pc' = "send"
         /\ fault' = fault
    ELSE Raise("APIError")

\* After a failed request: the client re-sends a transiently failed request
\* while it has retries left, otherwise the error is raised out of invoke.
AfterFailure(transient) ==
    IF transient /\ attempts <= chain.llm.max_retries
    THEN /\ pc' = "send"
         /\ fault' = fault
    ELSE Raise("APIError")

\* The request fails: a network error or an API error status.
ReceiveError ==
    /\ pc = "wait"
    /\ \E req \in inflight, transient \in BOOLEAN :
        /\ inflight' = inflight \ {req}
        /\ AfterFailure(transient)
    /\ failures' = failures + 1
    /\ UNCHANGED <<credential, llm, kind, items, task, idx, chain, prompt,
                   attempts, sent, served, result, out, invokes>>

\* What each cell prints for one item.
Block(k, item, res) ==
    IF k = "direct"
    THEN <<[k |-> "Text", v |-> item.input[TextKey]],
           [k |-> "Sentiment", v |-> res]>>
    ELSE IF k = "compare"
    THEN <<[k |-> "Name", v |-> <<item.name>>],
           [k |-> "Result", v |-> res],
           [k |-> "Separator", v |-> <<>>]>>
    ELSE <<[k |-> "Result", v |-> res]>>

\* AfterPrint of a loop that builds its chain once: compare_prompts goes on
\* with the chain of its first entry.
AfterPrintReuse(i) ==
    IF i < Len(items) THEN "invoke" ELSE "done"

\* The statement after the prints of item i: the loops go on (compare_prompts
\* builds the next chain, the direct-task loop reuses its chain).
AfterPrint(i) ==
    IF i < Len(items)
    THEN IF kind = "compare" THEN "create" ELSE "invoke"
    ELSE "done"

\* The print statements that follow the invocation.
PrintResult ==
    /\ pc = "print"
    /\ out' = out \o Block(kind, items[idx], result)
    /\ idx' = idx + 1
    /\ pc' = AfterPrint(idx)
    /\ UNCHANGED <<credential, llm, kind, items, task, chain, prompt, attempts,
                   inflight, sent, served, result, fault, invokes, failures>>

\* The cell is over: control returns to the kernel, which keeps llm.
EndCell ==
    /\ Ended
    /\ kind' = "none"
    /\ items' = <<>>
    /\ task' = <<>>
    /\ idx' = 0
    /\ pc' = "idle"
    /\ chain' = NoChain
    /\ prompt' = <<>>
    /\ attempts' = 0
    /\ inflight' = {}
    /\ sent' = <<>>
    /\ served' = <<>>
    /\ result' = <<>>
    /\ out' = <<>>
    /\ fault' = "none"
    /\ invokes' = 0
    /\ failures' = 0
    /\ UNCHANGED <<credential, llm>>

Next ==
    \/ RunSetup
    \/ StartDirect
    \/ StartSingle
    \/ StartCompare
    \/ CreateChain
    \/ Invoke
    \/ SendRequest
    \/ ReceiveReply
    \/ ReceiveError
    \/ PrintResult
    \/ EndCell

Spec == Init /\ [][Next]_vars

\* ------------------------------------------------------------------ claims

\* The invocation in progress has a bound prompt.
Bound == pc \in {"send", "wait", "print"}

\* The chain in hand was built from the current item's template.
ChainIsCurrent ==
    /\ idx \in 1..Len(items)
    /\ pc # "create"
    /\ chain.made
    /\ chain.template = items[idx].template

HasOpenBrace(s) == \E i \in 1..Len(s) : s[i] = "{"

\* The template has an escaped opening brace, "{{".
HasEscapedOpen(segs) ==
    \E i \in 1..Len(segs) : segs[i].lit /\ segs[i].text = <<"{">>

\* The bound text of item k, computed from its own template and mapping.
OwnText(k) == Format(Parse(items[k].template).segs, items[k].input)

\* What the cell has printed once n items are through, given the replies
\* the service gave.
RECURSIVE Rendered(_)
Rendered(n) ==
    IF n <= 0 \/ n > Len(items) \/ n > Len(served)
    THEN IF kind = "compare" THEN <<TaskLine(task)>> ELSE <<>>
    ELSE Rendered(n - 1) \o Block(kind, items[n], served[n].reply)

\* C1 as stated: whenever a covering mapping has been bound into a template,
\* the bound text holds no placeholder token, whatever the values are.
C1_NoPlaceholderRemains ==
    (Bound /\ ChainIsCurrent /\ Covers(chain.segs, items[idx].input))
        => ~HasPlaceholder(prompt)

\* C1 amended: a bound prompt comes from a covering mapping and is the
\* template with every placeholder replaced by its value in one pass; when
\* the template has no escaped "{{" and no value holds "{", the bound text
\* holds no "{" and so no placeholder token.
C1_NoPlaceholderWithoutBraces ==
    (Bound /\ ChainIsCurrent) =>
        /\ Covers(chain.segs, items[idx].input)
        /\ (/\ ~HasEscapedOpen(chain.segs)
            /\ \A n \in DOMAIN items[idx].input :
                  ~HasOpenBrace(items[idx].input[n]))
              => (~HasOpenBrace(prompt) /\ ~HasPlaceholder(prompt))

\* A template with a placeholder was bound to brace-free values.
C1_Witness ==
    /\ Bound
    /\ ChainIsCurrent
    /\ InputVariables(chain.segs) # {}
    /\ ~HasEscapedOpen(chain.segs)
    /\ \A n \in DOMAIN items[idx].input : ~HasOpenBrace(items[idx].input[n])
    /\ prompt # <<>>

\* C2: two invocations of one cell with the same template and the same
\* mapping bound the same prompt text, wherever they stand in the sequence.
C2_BindingIdempotent ==
    \A i, j \in 1..Len(sent) :
        (/\ items[sent[i].item].template = items[sent[j].item].template
         /\ items[sent[i].item].input = items[sent[j].item].input)
            => sent[i].text = sent[j].text

\* The same template and mapping were bound for two different items.
C2_Witness ==
    \E i, j \in 1..Len(sent) :
        /\ sent[i].item # sent[j].item
        /\ items[sent[i].item].template = items[sent[j].item].template
        /\ items[sent[i].item].input = items[sent[j].item].input
        /\ sent[i].text = sent[j].text

\* C3: once invoke has run with a mapping that lacks a key of the template,
\* the cell has ended in a KeyError and no request was sent for the item.
C3_MissingKeyFails ==
    (/\ ChainIsCurrent
     /\ ~Covers(chain.segs, items[idx].input)
     /\ pc # "invoke")
        => /\ fault = "KeyError"
           /\ pc = "halt"
           /\ \A i \in 1..Len(sent) : sent[i].item # idx

\* invoke ran with a mapping lacking a key and raised.
C3_Witness ==
    /\ ChainIsCurrent
    /\ ~Covers(chain.segs, items[idx].input)
    /\ fault = "KeyError"

C6_Sequential ==
    /\ Cardinality(inflight) <= 1
    /\ inflight # {} =>
        /\ pc = "wait"
        /\ \A r \in inflight : r.item = idx
        /\ Len(served) = idx - 1
        /\ out = Rendered(idx - 1)

\* A request of a later item is outstanding.
C6_Witness ==
    /\ inflight # {}
    /\ idx > 1
    /\ Len(out) > 1

\* C7: result is the reply the service gave last, every reply answers the
\* request bound from its own item, and what is printed is each item's
\* input with the reply to that item, unchanged.
C7_RawReplyPrinted ==
    /\ pc = "print" =>
        /\ Len(served) = idx
        /\ result = served[idx].reply
    /\ \A k \in 1..Len(served) :
        /\ served[k].item = k
        /\ k <= Len(items)
        /\ served[k].text = OwnText(k)
    /\ pc \in {"create", "invoke", "send", "wait", "print", "done"} =>
        out = Rendered(IF pc = "print" THEN idx - 1 ELSE Len(served))

\* Two items were printed with different replies.
C7_Witness ==
    /\ Len(served) >= 2
    /\ served[1].reply # served[2].reply
    /\ out = Rendered(2)
    /\ Len(out) >= 4

\* C8: create_chain and invoke leave the client, the templates and the
\* caller's mappings as they were, and every request carries the text bound
\* from its own item's template and mapping.
C8_NoSharedMutableState ==
    /\ [][(pc \in {"create", "invoke", "send", "wait", "print"})
            => (llm' = llm /\ items' = items /\ task' = task)]_vars
    /\ [](\A i \in 1..Len(sent) :
            /\ sent[i].item \in 1..Len(items)
            /\ sent[i].text = OwnText(sent[i].item))
    /\ [](chain.made => chain.llm = llm)

\* A second item's request was sent after the first item's.
C8_Witness ==
    /\ Len(sent) >= 2
    /\ sent[1].item # sent[Len(sent)].item
    /\ sent[1].text # sent[Len(sent)].text

\* C9: compare_prompts that ran to its end with no failed request made one
\* invoke and one request per entry, in order, each binding {task} to the
\* same task, and printed the task line and then one block per entry in
\* order; on the way, an entry is touched only with the earlier blocks
\* printed.
C9_CompareLoop ==
    kind = "compare" =>
        /\ (pc = "done" /\ failures = 0) =>
            /\ fault = "none"
            /\ invokes = Len(items)
            /\ Len(sent) = Len(items)
            /\ Len(served) = Len(items)
            /\ \A k \in 1..Len(sent) :
                /\ sent[k].item = k
                /\ items[k].input = [n \in {TaskKey} |-> task]
                /\ sent[k].text = OwnText(k)
            /\ out = Rendered(Len(items))
            /\ Len(out) = 1 + 3 * Len(items)
        /\ pc \in {"create", "invoke", "send", "wait"} =>
            /\ out = Rendered(idx - 1)
            /\ Len(out) = 1 + 3 * (idx - 1)

\* The notebook's call: Basic then Structured, ended after two requests.
C9_Witness ==
    /\ kind = "compare"
    /\ pc = "done"
    /\ failures = 0
    /\ Len(items) = 2
    /\ items[1].name = "Basic"
    /\ items[2].name = "Structured"
    /\ Len(sent) = 2

\* C10: every request was sent after its item's template was parsed and its
\* mapping bound, and carries that bound text; with the chain just built
\* nothing was sent for the item, and a binding failure leaves the item
\* without a request.
C10_BindBeforeSend ==
    /\ \A i \in 1..Len(sent) :
        /\ sent[i].item \in 1..Len(items)
        /\ sent[i].item <= invokes
        /\ Parse(items[sent[i].item].template).ok
        /\ Covers(Parse(items[sent[i].item].template).segs,
                  items[sent[i].item].input)
        /\ sent[i].text = OwnText(sent[i].item)
    /\ \A r \in inflight : r.text = prompt
    /\ pc \in {"create", "invoke"} => \A i \in 1..Len(sent) : sent[i].item < idx
    /\ fault \in {"KeyError", "ValueError", "NameError"} =>
        /\ inflight = {}
        /\ \A i \in 1..Len(sent) : sent[i].item < idx

\* A later item's binding failed after an earlier item's request went out.
C10_Witness ==
    /\ fault \in {"KeyError", "ValueError"}
    /\ Len(sent) >= 1
    /\ idx > 1

====
